---------------------------- MODULE Spec2Model ----------------------------
(***************************************************************************)
(* The order workflow store of react-good-patterns (store/orderStore.ts):  *)
(* a zustand store holding a six-label state field, a cart, the payment    *)
(* details and an error message, with three synchronous operations and two *)
(* asynchronous ones whose continuations run when a simulated 1000 ms      *)
(* timer promise settles.  With it: the todo store (store/todoStore.ts)    *)
(* and the useCounter hook (hooks/useCounter.ts).                          *)
(***************************************************************************)
EXTENDS Integers, Sequences, FiniteSets, TLC

(***************************************************************************)
(* Bounds of the model.                                                    *)
(***************************************************************************)
MaxCart == 3
MaxPending == 2
MaxTodos == 3
MaxCount == 5
MaxTimers == 4
MaxClicks == 4
MaxMutations == 2
AppMaxWork == 5

Items == {"item", "book"}
Details == {"", "card"}
Messages == {"declined", "timeout"}
Texts == {"", "buy milk", "walk dog"}
Instances == {"A", "B"}
DefaultIntervalMs == 1000
Periods == {DefaultIntervalMs, 100}

(***************************************************************************)
(* `string | null` is modelled as a sequence of length at most one.        *)
(***************************************************************************)
Null == <<>>
Some(x) == <<x>>

OrderStates ==
  {"browsing", "paymentEntry", "processingPayment",
   "confirmOrder", "processingOrder", "orderComplete"}

VARIABLES
  state,           \* OrderStore.state
  cart,            \* OrderStore.cart
  paymentDetails,  \* OrderStore.paymentDetails
  error,           \* OrderStore.error
  pending,         \* async actions awaiting their timer promise, oldest first
  event,           \* history: the last operation invoked or continuation run
  added,           \* history: the arguments of all addToCart calls, in order
  onlyAdds,        \* history: no operation other than addToCart was invoked
  todos,           \* TodoStore.todos
  input,           \* TodoStore.input
  addTodoCalls,    \* history: the number of addTodo calls made
  todoEvent,       \* history: the last todo operation and the buffer it found
  hooks,           \* per useCounter instance: its activation and React state
  timers,          \* the interval timers that are live (set, not yet cleared)
  nextTimer,       \* the id the next setInterval returns
  counterEvent,    \* history: the last mount, re-render, tick or unmount
  countSignal,     \* SignalCounter.tsx: the value of the module-level signal
  signalView,      \* what a mounted SignalCounter displays, Null if unmounted
  signalClicks,    \* history: the number of clicks on its Increment button
  signalEvent,     \* history: the last mount, unmount or click of SignalCounter
  buggyCount,      \* BuggyCounter's count state
  hasError,        \* ErrorBoundary.state.hasError
  boundaryView,    \* what the ErrorBoundary displays
  buggyClicks,     \* history: the number of clicks on BuggyCounter's button
  queryData,       \* the query cache's data for ['todos'], Null if undefined
  fetching,        \* a fetch of ['todos'] is in flight
  mutations,       \* toggle mutations in flight, oldest first
  queryEvent       \* history: the last query step and the data it found

orderVars ==
  <<state, cart, paymentDetails, error, pending, event, added, onlyAdds>>
todoVars == <<todos, input, addTodoCalls, todoEvent>>
counterVars == <<hooks, timers, nextTimer, counterEvent>>

signalVars == <<countSignal, signalView, signalClicks, signalEvent>>
boundaryVars == <<buggyCount, hasError, boundaryView, buggyClicks>>
queryVars == <<queryData, fetching, mutations, queryEvent>>
showcaseVars == <<signalVars, boundaryVars, queryVars>>

vars == <<orderVars, todoVars, counterVars, showcaseVars>>

(***************************************************************************)
(* A promise is represented by the way it will settle.                     *)
(***************************************************************************)
Resolved(v) == [settle |-> "resolve", value |-> v]
Rejected(m) == [settle |-> "reject", value |-> Some(m)]

\* Variant: the simulated payment rejects instead of resolving.
processPayment_rejects(details) == Rejected("declined")

\* new Promise((res) => setTimeout(() => res(details), 1000))
processPayment(details) == Resolved(Some(details))

\* new Promise((res) => setTimeout(res, 1000)); both arguments are ignored
submitOrder(c, pd) == Resolved(Null)

\* The operation, its argument, what its call returned (or how the promise
\* it returned settled), and the state and error fields it found.
Event(op, arg, returns) ==
  [op |-> op, arg |-> arg, returns |-> returns, from |-> state, was |-> error]

(***************************************************************************)
(* The todo store as created, and the hook instances before any consuming  *)
(* view is mounted.                                                        *)
(***************************************************************************)
TodoInit ==
  /\ todos = <<>>
  /\ input = ""
  /\ addTodoCalls = 0
  /\ todoEvent = [op |-> "create", arg |-> Null, buffer |-> ""]

NoTimer == 0

Unmounted ==
  [mounted |-> FALSE, count |-> 0, intervalMs |-> DefaultIntervalMs,
   timer |-> NoTimer, activation |-> 0, ticks |-> 0]

CounterInit ==
  /\ hooks = [i \in Instances |-> Unmounted]
  /\ timers = {}
  /\ nextTimer = 1
  /\ counterEvent = [op |-> "none", inst |-> "", timer |-> NoTimer]

(***************************************************************************)
(* The demo components as first rendered.  SignalCounter is not mounted    *)
(* yet, but its signal exists from module load.  BuggyCounter shows 0      *)
(* inside its boundary.  ServerStateManagement has rendered once, which    *)
(* started the first fetch of the todos query.                             *)
(***************************************************************************)
\* fetchTodos: the list every call resolves to
FixedTodos ==
  << [id |-> 1, title |-> "Learn React Query", completed |-> FALSE],
     [id |-> 2, title |-> "Build a demo app", completed |-> FALSE],
     [id |-> 3, title |-> "Share knowledge", completed |-> TRUE] >>

CounterShown(n) == [shows |-> "counter", count |-> Some(n)]
FallbackShown == [shows |-> "fallback", count |-> Null]

SignalInit ==
  /\ countSignal = 0
  /\ signalView = Null
  /\ signalClicks = 0
  /\ signalEvent = "none"

BoundaryInit ==
  /\ buggyCount = 0
  /\ hasError = FALSE
  /\ boundaryView = CounterShown(0)
  /\ buggyClicks = 0

QueryInit ==
  /\ queryData = Null
  /\ fetching = TRUE
  /\ mutations = <<>>
  /\ queryEvent = [op |-> "mount", todoId |-> 0, before |-> Null]

ShowcaseInit ==
  /\ SignalInit
  /\ BoundaryInit
  /\ QueryInit

\* Variant: the store is created with an empty string for the payment details.
Init_emptyDetails ==
  /\ state = "browsing"
  /\ cart = <<>>
  /\ paymentDetails = Some("")
  /\ error = Null
  /\ pending = <<>>
  /\ event = [op |-> "create", arg |-> Null, returns |-> "void",
              from |-> "browsing", was |-> Null]
  /\ added = <<>>
  /\ onlyAdds = TRUE
  /\ TodoInit
  /\ CounterInit
  /\ ShowcaseInit

Init ==
  /\ state = "browsing"
  /\ cart = <<>>
  /\ paymentDetails = Null
  /\ error = Null
  /\ pending = <<>>
  /\ event = [op |-> "create", arg |-> Null, returns |-> "void",
              from |-> "browsing", was |-> Null]
  /\ added = <<>>
  /\ onlyAdds = TRUE
  /\ TodoInit
  /\ CounterInit
  /\ ShowcaseInit

(***************************************************************************)
(* Synchronous operations.                                                 *)
(***************************************************************************)
\* Variant: items are accepted only while browsing.
AddToCart_onlyBrowsing(item) ==
  /\ Len(cart) < MaxCart
  /\ cart' = (IF state = "browsing" THEN Append(cart, item) ELSE cart)
  /\ added' = Append(added, item)
  /\ event' = Event("addToCart", Some(item), "void")
  /\ UNCHANGED <<state, paymentDetails, error, pending, onlyAdds>>
  /\ UNCHANGED <<todoVars, counterVars, showcaseVars>>

\* Variant: the new item is put in front of the cart.
AddToCart_prepend(item) ==
  /\ Len(cart) < MaxCart
  /\ cart' = <<item>> \o cart
  /\ added' = Append(added, item)
  /\ event' = Event("addToCart", Some(item), "void")
  /\ UNCHANGED <<state, paymentDetails, error, pending, onlyAdds>>
  /\ UNCHANGED <<todoVars, counterVars, showcaseVars>>

AddToCart(item) ==
  /\ Len(cart) < MaxCart
  /\ cart' = Append(cart, item)
  /\ added' = Append(added, item)
  /\ event' = Event("addToCart", Some(item), "void")
  /\ UNCHANGED <<state, paymentDetails, error, pending, onlyAdds>>
  /\ UNCHANGED <<todoVars, counterVars, showcaseVars>>

\* Variant: checkout is only entered from browsing.
GoToCheckout_guarded ==
  /\ state' = (IF state = "browsing" THEN "paymentEntry" ELSE state)
  /\ event' = Event("goToCheckout", Null, "void")
  /\ onlyAdds' = FALSE
  /\ UNCHANGED <<cart, paymentDetails, error, pending, added>>
  /\ UNCHANGED <<todoVars, counterVars, showcaseVars>>

GoToCheckout ==
  /\ state' = "paymentEntry"
  /\ event' = Event("goToCheckout", Null, "void")
  /\ onlyAdds' = FALSE
  /\ UNCHANGED <<cart, paymentDetails, error, pending, added>>
  /\ UNCHANGED <<todoVars, counterVars, showcaseVars>>

\* Variant: going back from confirmOrder returns to browsing.
goBackTarget_toBrowsing(s) ==
  IF s = "paymentEntry" THEN "browsing"
  ELSE IF s = "confirmOrder" THEN "browsing"
  ELSE s

\* Variant: going back is also offered from orderComplete.
goBackTarget_fromComplete(s) ==
  IF s = "paymentEntry" THEN "browsing"
  ELSE IF s = "confirmOrder" THEN "paymentEntry"
  ELSE IF s = "orderComplete" THEN "confirmOrder"
  ELSE s

goBackTarget(s) ==
  IF s = "paymentEntry" THEN "browsing"
  ELSE IF s = "confirmOrder" THEN "paymentEntry"
  ELSE s

\* Variant: going back dismisses the error of an earlier failure.
GoBack_clearsError ==
  /\ state' = goBackTarget(state)
  /\ error' = Null
  /\ event' = Event("goBack", Null, "void")
  /\ onlyAdds' = FALSE
  /\ UNCHANGED <<cart, paymentDetails, pending, added>>
  /\ UNCHANGED <<todoVars, counterVars, showcaseVars>>

\* Variant: going back from confirmOrder forgets the payment details.
GoBack_clearsDetails ==
  /\ state' = goBackTarget(state)
  /\ paymentDetails' = (IF state = "confirmOrder" THEN Null ELSE paymentDetails)
  /\ event' = Event("goBack", Null, "void")
  /\ onlyAdds' = FALSE
  /\ UNCHANGED <<cart, error, pending, added>>
  /\ UNCHANGED <<todoVars, counterVars, showcaseVars>>

GoBack ==
  /\ state' = goBackTarget(state)
  /\ event' = Event("goBack", Null, "void")
  /\ onlyAdds' = FALSE
  /\ UNCHANGED <<cart, paymentDetails, error, pending, added>>
  /\ UNCHANGED <<todoVars, counterVars, showcaseVars>>

(***************************************************************************)
(* Asynchronous operations: the part before the await runs at the call,    *)
(* the part after it when the awaited promise settles.  All timers have    *)
(* the same delay, so promises settle in the order they were created.      *)
(***************************************************************************)
\* Variant: the error of an earlier failure is kept when a payment starts.
SubmitPaymentAwaiting_keepsError(details, promise) ==
  /\ Len(pending) < MaxPending
  /\ state' = "processingPayment"
  /\ pending' = Append(pending,
       [action |-> "submitPayment", arg |-> Some(details), promise |-> promise])
  /\ event' = Event("submitPayment", Some(details), "pending")
  /\ onlyAdds' = FALSE
  /\ UNCHANGED <<cart, paymentDetails, added, error>>
  /\ UNCHANGED <<todoVars, counterVars, showcaseVars>>

SubmitPaymentAwaiting(details, promise) ==
  /\ Len(pending) < MaxPending
  /\ state' = "processingPayment"
  /\ error' = Null
  /\ pending' = Append(pending,
       [action |-> "submitPayment", arg |-> Some(details), promise |-> promise])
  /\ event' = Event("submitPayment", Some(details), "pending")
  /\ onlyAdds' = FALSE
  /\ UNCHANGED <<cart, paymentDetails, added>>
  /\ UNCHANGED <<todoVars, counterVars, showcaseVars>>

SubmitPayment(details) ==
  SubmitPaymentAwaiting(details, processPayment(details))

PlaceOrderAwaiting(promise) ==
  /\ Len(pending) < MaxPending
  /\ state' = "processingOrder"
  /\ error' = Null
  /\ pending' = Append(pending,
       [action |-> "placeOrder", arg |-> Null, promise |-> promise])
  /\ event' = Event("placeOrder", Null, "pending")
  /\ onlyAdds' = FALSE
  /\ UNCHANGED <<cart, paymentDetails, added>>
  /\ UNCHANGED <<todoVars, counterVars, showcaseVars>>

PlaceOrder ==
  PlaceOrderAwaiting(submitOrder(cart, paymentDetails))

\* Variant: the resolved payment is not stored.
SubmitPaymentSettled_noDetails(p) ==
  IF p.promise.settle = "resolve"
  THEN /\ state' = "confirmOrder"
       /\ event' = Event("submitPayment.then", p.arg, "fulfilled")
       /\ UNCHANGED <<error, cart, paymentDetails>>
  ELSE /\ state' = "paymentEntry"
       /\ error' = p.promise.value
       /\ event' = Event("submitPayment.catch", p.arg, "fulfilled")
       /\ UNCHANGED <<paymentDetails, cart>>

\* Variant: the completion writes only if the store is still processing the
\* payment.
SubmitPaymentSettled_checksState(p) ==
  IF state # "processingPayment"
  THEN /\ event' = Event("submitPayment.then", p.arg, "fulfilled")
       /\ UNCHANGED <<state, paymentDetails, error, cart>>
  ELSE IF p.promise.settle = "resolve"
  THEN /\ state' = "confirmOrder"
       /\ paymentDetails' = p.promise.value
       /\ event' = Event("submitPayment.then", p.arg, "fulfilled")
       /\ UNCHANGED <<error, cart>>
  ELSE /\ state' = "paymentEntry"
       /\ error' = p.promise.value
       /\ event' = Event("submitPayment.catch", p.arg, "fulfilled")
       /\ UNCHANGED <<paymentDetails, cart>>

\* Variant: a resolved payment stores the details but leaves the state alone.
SubmitPaymentSettled_keepsState(p) ==
  IF p.promise.settle = "resolve"
  THEN /\ paymentDetails' = p.promise.value
       /\ event' = Event("submitPayment.then", p.arg, "fulfilled")
       /\ UNCHANGED <<state, error, cart>>
  ELSE /\ state' = "paymentEntry"
       /\ error' = p.promise.value
       /\ event' = Event("submitPayment.catch", p.arg, "fulfilled")
       /\ UNCHANGED <<paymentDetails, cart>>

SubmitPaymentSettled(p) ==
  IF p.promise.settle = "resolve"
  THEN /\ state' = "confirmOrder"
       /\ paymentDetails' = p.promise.value
       /\ event' = Event("submitPayment.then", p.arg, "fulfilled")
       /\ UNCHANGED <<error, cart>>
  ELSE /\ state' = "paymentEntry"
       /\ error' = p.promise.value
       /\ event' = Event("submitPayment.catch", p.arg, "fulfilled")
       /\ UNCHANGED <<paymentDetails, cart>>

\* Variant: a completed order empties the cart.
PlaceOrderSettled_clearsCart(p) ==
  IF p.promise.settle = "resolve"
  THEN /\ state' = "orderComplete"
       /\ cart' = <<>>
       /\ event' = Event("placeOrder.then", p.arg, "fulfilled")
       /\ UNCHANGED <<error, paymentDetails>>
  ELSE /\ state' = "confirmOrder"
       /\ error' = p.promise.value
       /\ event' = Event("placeOrder.catch", p.arg, "fulfilled")
       /\ UNCHANGED <<paymentDetails, cart>>

PlaceOrderSettled(p) ==
  IF p.promise.settle = "resolve"
  THEN /\ state' = "orderComplete"
       /\ event' = Event("placeOrder.then", p.arg, "fulfilled")
       /\ UNCHANGED <<error, paymentDetails, cart>>
  ELSE /\ state' = "confirmOrder"
       /\ error' = p.promise.value
       /\ event' = Event("placeOrder.catch", p.arg, "fulfilled")
       /\ UNCHANGED <<paymentDetails, cart>>

PaymentSettles ==
  /\ pending # <<>>
  /\ Head(pending).action = "submitPayment"
  /\ SubmitPaymentSettled(Head(pending))
  /\ pending' = Tail(pending)
  /\ UNCHANGED <<added, onlyAdds>>
  /\ UNCHANGED <<todoVars, counterVars, showcaseVars>>

OrderSettles ==
  /\ pending # <<>>
  /\ Head(pending).action = "placeOrder"
  /\ PlaceOrderSettled(Head(pending))
  /\ pending' = Tail(pending)
  /\ UNCHANGED <<added, onlyAdds>>
  /\ UNCHANGED <<todoVars, counterVars, showcaseVars>>

Next ==
  \/ \E item \in Items : AddToCart(item)
  \/ GoToCheckout
  \/ GoBack
  \/ \E details \in Details : SubmitPayment(details)
  \/ PlaceOrder
  \/ PaymentSettles
  \/ OrderSettles

Spec == Init /\ [][Next]_vars

(***************************************************************************)
(* The same store awaiting a payment or order service that may reject.     *)
(***************************************************************************)
SubmitPaymentRejecting(details, m) ==
  SubmitPaymentAwaiting(details, Rejected(m))

PlaceOrderRejecting(m) ==
  PlaceOrderAwaiting(Rejected(m))

NextFail ==
  \/ Next
  \/ \E details \in Details, m \in Messages : SubmitPaymentRejecting(details, m)
  \/ \E m \in Messages : PlaceOrderRejecting(m)

SpecFail == Init /\ [][NextFail]_vars

(***************************************************************************)
(* The store with its timers running: the setTimeout behind every pending  *)
(* promise fires after its delay, so a completion that can run is not      *)
(* postponed forever.                                                      *)
(***************************************************************************)
SpecLive ==
  /\ Init
  /\ [][Next]_vars
  /\ WF_vars(PaymentSettles)
  /\ WF_vars(OrderSettles)

(***************************************************************************)
(* The todo store.                                                         *)
(***************************************************************************)
\* Variant: the typed text is added to what the buffer holds.
SetInput_concat(val) ==
  /\ input' = input \o val
  /\ todoEvent' = [op |-> "setInput", arg |-> Some(val), buffer |-> input]
  /\ UNCHANGED <<todos, addTodoCalls>>
  /\ UNCHANGED <<orderVars, counterVars, showcaseVars>>

SetInput(val) ==
  /\ input' = val
  /\ todoEvent' = [op |-> "setInput", arg |-> Some(val), buffer |-> input]
  /\ UNCHANGED <<todos, addTodoCalls>>
  /\ UNCHANGED <<orderVars, counterVars, showcaseVars>>

\* Variant: an empty buffer is not added.
AddTodo_rejectsEmpty ==
  /\ Len(todos) < MaxTodos
  /\ todos' = (IF input = "" THEN todos ELSE Append(todos, [text |-> input]))
  /\ input' = ""
  /\ addTodoCalls' = addTodoCalls + 1
  /\ todoEvent' = [op |-> "addTodo", arg |-> Null, buffer |-> input]
  /\ UNCHANGED <<orderVars, counterVars, showcaseVars>>

\* Variant: the new todo is put in front of the list.
AddTodo_prepend ==
  /\ Len(todos) < MaxTodos
  /\ todos' = <<[text |-> input]>> \o todos
  /\ input' = ""
  /\ addTodoCalls' = addTodoCalls + 1
  /\ todoEvent' = [op |-> "addTodo", arg |-> Null, buffer |-> input]
  /\ UNCHANGED <<orderVars, counterVars, showcaseVars>>

AddTodo ==
  /\ Len(todos) < MaxTodos
  /\ todos' = Append(todos, [text |-> input])
  /\ input' = ""
  /\ addTodoCalls' = addTodoCalls + 1
  /\ todoEvent' = [op |-> "addTodo", arg |-> Null, buffer |-> input]
  /\ UNCHANGED <<orderVars, counterVars, showcaseVars>>

TodoNext ==
  \/ \E val \in Texts : SetInput(val)
  \/ AddTodo

SpecTodo == Init /\ [][TodoNext]_vars

(***************************************************************************)
(* The useCounter hook.  An instance is one place where a view calls the   *)
(* hook; mounting it runs useState(0) and the effect, which sets an        *)
(* interval timer; the effect's cleanup clears that timer when the view    *)
(* unmounts or when intervalMs changed between renders.  A live timer      *)
(* fires any number of times; its callback updates the state of the        *)
(* activation that set it, which React ignores once that activation is     *)
(* gone.                                                                   *)
(***************************************************************************)
TimerOf(id) == {t \in timers : t.id = id}

\* const id = setInterval(..., intervalMs)
SetInterval(i, activation, ms) ==
  [id |-> nextTimer, inst |-> i, activation |-> activation, ms |-> ms]

Mount(i, ms) ==
  /\ ~hooks[i].mounted
  /\ nextTimer <= MaxTimers
  /\ LET a == hooks[i].activation + 1 IN
       /\ timers' = timers \cup {SetInterval(i, a, ms)}
       /\ hooks' = [hooks EXCEPT ![i] =
            [mounted |-> TRUE, count |-> 0, intervalMs |-> ms,
             timer |-> nextTimer, activation |-> a, ticks |-> 0]]
  /\ nextTimer' = nextTimer + 1
  /\ counterEvent' = [op |-> "mount", inst |-> i, timer |-> nextTimer]
  /\ UNCHANGED <<orderVars, todoVars, showcaseVars>>

\* Variant: the effect has no cleanup for a changed intervalMs.
Rerender_leaksOld(i, ms) ==
  /\ hooks[i].mounted
  /\ IF ms = hooks[i].intervalMs
     THEN UNCHANGED <<hooks, timers, nextTimer>>
     ELSE /\ nextTimer <= MaxTimers
          /\ timers' = timers \cup {SetInterval(i, hooks[i].activation, ms)}
          /\ hooks' = [hooks EXCEPT ![i].intervalMs = ms, ![i].timer = nextTimer]
          /\ nextTimer' = nextTimer + 1
  /\ counterEvent' = [op |-> "rerender", inst |-> i, timer |-> hooks'[i].timer]
  /\ UNCHANGED <<orderVars, todoVars, showcaseVars>>

Rerender(i, ms) ==
  /\ hooks[i].mounted
  /\ IF ms = hooks[i].intervalMs
     THEN UNCHANGED <<hooks, timers, nextTimer>>
     ELSE /\ nextTimer <= MaxTimers
          /\ timers' = (timers \ TimerOf(hooks[i].timer))
                         \cup {SetInterval(i, hooks[i].activation, ms)}
          /\ hooks' = [hooks EXCEPT ![i].intervalMs = ms, ![i].timer = nextTimer]
          /\ nextTimer' = nextTimer + 1
  /\ counterEvent' = [op |-> "rerender", inst |-> i, timer |-> hooks'[i].timer]
  /\ UNCHANGED <<orderVars, todoVars, showcaseVars>>

\* setCount((c) => c + 1) of the activation that set the timer
Alive(t) ==
  /\ hooks[t.inst].mounted
  /\ hooks[t.inst].activation = t.activation

\* Variant: the callback uses the count of the render that set the timer.
Tick_staleClosure(t) ==
  /\ t \in timers
  /\ hooks[t.inst].count < MaxCount
  /\ hooks' = IF Alive(t)
              THEN [hooks EXCEPT ![t.inst].count = 1,
                                 ![t.inst].ticks = @ + 1]
              ELSE hooks
  /\ counterEvent' = [op |-> "tick", inst |-> t.inst, timer |-> t.id]
  /\ UNCHANGED <<timers, nextTimer>>
  /\ UNCHANGED <<orderVars, todoVars, showcaseVars>>

\* Variant: the count is one value shared by all instances.
Tick_shared(t) ==
  /\ t \in timers
  /\ \A i \in Instances : hooks[i].count < MaxCount
  /\ hooks' = [i \in Instances |->
                 IF hooks[i].mounted
                 THEN [hooks[i] EXCEPT !.count = @ + 1, !.ticks = @ + 1]
                 ELSE hooks[i]]
  /\ counterEvent' = [op |-> "tick", inst |-> t.inst, timer |-> t.id]
  /\ UNCHANGED <<timers, nextTimer>>
  /\ UNCHANGED <<orderVars, todoVars, showcaseVars>>

Tick(t) ==
  /\ t \in timers
  /\ hooks[t.inst].count < MaxCount
  /\ hooks' = IF Alive(t)
              THEN [hooks EXCEPT ![t.inst].count = @ + 1,
                                 ![t.inst].ticks = @ + 1]
              ELSE hooks
  /\ counterEvent' = [op |-> "tick", inst |-> t.inst, timer |-> t.id]
  /\ UNCHANGED <<timers, nextTimer>>
  /\ UNCHANGED <<orderVars, todoVars, showcaseVars>>

\* Variant: the effect returns no cleanup.
Unmount_noCleanup(i) ==
  /\ hooks[i].mounted
  /\ hooks' = [hooks EXCEPT ![i].mounted = FALSE, ![i].timer = NoTimer]
  /\ counterEvent' = [op |-> "unmount", inst |-> i, timer |-> hooks[i].timer]
  /\ UNCHANGED <<timers, nextTimer>>
  /\ UNCHANGED <<orderVars, todoVars, showcaseVars>>

Unmount(i) ==
  /\ hooks[i].mounted
  /\ timers' = timers \ TimerOf(hooks[i].timer)
  /\ hooks' = [hooks EXCEPT ![i].mounted = FALSE, ![i].timer = NoTimer]
  /\ counterEvent' = [op |-> "unmount", inst |-> i, timer |-> hooks[i].timer]
  /\ UNCHANGED nextTimer
  /\ UNCHANGED <<orderVars, todoVars, showcaseVars>>

CounterNext ==
  \/ \E i \in Instances, ms \in Periods : Mount(i, ms)
  \/ \E i \in Instances, ms \in Periods : Rerender(i, ms)
  \/ \E t \in timers : Tick(t)
  \/ \E i \in Instances : Unmount(i)

SpecCounter == Init /\ [][CounterNext]_vars

(***************************************************************************)
(* The controls OrderProcess renders: each is there only in the state that *)
(* shows it, and Checkout is disabled while the cart is empty.  The text   *)
(* typed into the payment field is whatever the user chose.                *)
(***************************************************************************)
ClickAddItem ==
  /\ state = "browsing"
  /\ AddToCart("item")

\* Variant: the Checkout button is rendered in every state.
ClickCheckout_alwaysRendered ==
  /\ Len(cart) # 0
  /\ GoToCheckout

\* Variant: the Checkout button is not disabled while the cart is empty.
ClickCheckout_neverDisabled ==
  /\ state = "browsing"
  /\ GoToCheckout

ClickCheckout ==
  /\ state = "browsing"
  /\ Len(cart) # 0
  /\ GoToCheckout

\* Variant: the payment form stays on screen while a payment is processed.
ClickSubmitPayment_whileProcessing ==
  /\ state \in {"paymentEntry", "processingPayment"}
  /\ \E details \in Details : SubmitPayment(details)

ClickSubmitPayment ==
  /\ state = "paymentEntry"
  /\ \E details \in Details : SubmitPayment(details)

ClickBack ==
  /\ state \in {"paymentEntry", "confirmOrder"}
  /\ GoBack

ClickConfirmOrder ==
  /\ state = "confirmOrder"
  /\ PlaceOrder

ViewNext ==
  \/ ClickAddItem
  \/ ClickCheckout
  \/ ClickSubmitPayment
  \/ ClickBack
  \/ ClickConfirmOrder
  \/ PaymentSettles
  \/ OrderSettles

\* The same controls over a payment or order service that may reject.
ClickSubmitPaymentRejecting ==
  /\ state = "paymentEntry"
  /\ \E details \in Details, m \in Messages : SubmitPaymentRejecting(details, m)

ClickConfirmOrderRejecting ==
  /\ state = "confirmOrder"
  /\ \E m \in Messages : PlaceOrderRejecting(m)

ViewFailNext ==
  \/ ViewNext
  \/ ClickSubmitPaymentRejecting
  \/ ClickConfirmOrderRejecting

SpecViewFail == Init /\ [][ViewFailNext]_vars

(***************************************************************************)
(* The page (App.tsx) holds the todo view, the order view and the counter  *)
(* views together: the clicks on the two store views, the async            *)
(* completions and the steps of the hook instances (called with the        *)
(* default period, as Counter does) interleave in any order.  The combined *)
(* state space is kept small by a bound on the total of what was added,    *)
(* started and counted.                                                    *)
(***************************************************************************)
PageCounterNext ==
  \/ \E i \in Instances : Mount(i, DefaultIntervalMs)
  \/ \E t \in timers : Tick(t)
  \/ \E i \in Instances : Unmount(i)

RECURSIVE SumCounts(_)
SumCounts(S) ==
  IF S = {} THEN 0
  ELSE LET i == CHOOSE x \in S : TRUE
       IN hooks[i].count + SumCounts(S \ {i})

Work ==
  Len(cart) + Len(pending) + Len(todos) + (nextTimer - 1) + SumCounts(Instances)

AppBound == Work <= AppMaxWork

AppNext ==
  \/ ViewNext /\ AppBound'
  \/ TodoNext /\ AppBound'
  \/ PageCounterNext /\ AppBound'

SpecApp == Init /\ [][AppNext]_vars

(***************************************************************************)
(* SignalCounter: a module-level signal, read and incremented by whichever *)
(* instance of the component is mounted.  useSignals() re-renders the      *)
(* component when the signal changes.                                      *)
(***************************************************************************)
\* computed(() => countSignal.value * 2)
double(count) == count * 2

\* What SignalCounter renders for a value of the signal.
SignalRender(count) == Some([count |-> count, double |-> double(count)])

\* Variant: the signal is created by the component, so each mount starts at 0.
SignalMount_resets ==
  /\ signalView = Null
  /\ countSignal' = 0
  /\ signalView' = SignalRender(0)
  /\ signalEvent' = "mount"
  /\ UNCHANGED signalClicks
  /\ UNCHANGED <<orderVars, todoVars, counterVars, boundaryVars, queryVars>>

SignalMount ==
  /\ signalView = Null
  /\ signalView' = SignalRender(countSignal)
  /\ signalEvent' = "mount"
  /\ UNCHANGED <<countSignal, signalClicks>>
  /\ UNCHANGED <<orderVars, todoVars, counterVars, boundaryVars, queryVars>>

SignalUnmount ==
  /\ signalView # Null
  /\ signalView' = Null
  /\ signalEvent' = "unmount"
  /\ UNCHANGED <<countSignal, signalClicks>>
  /\ UNCHANGED <<orderVars, todoVars, counterVars, boundaryVars, queryVars>>

\* onClick={() => countSignal.value++}
SignalClickIncrement ==
  /\ signalView # Null
  /\ signalClicks < MaxClicks
  /\ countSignal' = countSignal + 1
  /\ signalView' = SignalRender(countSignal')
  /\ signalClicks' = signalClicks + 1
  /\ signalEvent' = "click"
  /\ UNCHANGED <<orderVars, todoVars, counterVars, boundaryVars, queryVars>>

SignalNext ==
  \/ SignalMount
  \/ SignalUnmount
  \/ SignalClickIncrement

(***************************************************************************)
(* BuggyCounter inside the ErrorBoundary.  A click sets the count and      *)
(* re-renders; a render that throws makes the boundary derive hasError and *)
(* render the fallback in place of its children.                           *)
(***************************************************************************)
\* Variant: the counter crashes only once the count has passed 3.
BuggyCounterThrows_above(count) == count > 3

\* if (count === 3) throw new Error(...)
BuggyCounterThrows(count) == count = 3

\* The Increment button is BuggyCounter's, so it is there only while the
\* boundary renders its children.
BuggyClickIncrement ==
  /\ ~hasError
  /\ boundaryView.shows = "counter"
  /\ buggyClicks < MaxClicks
  /\ buggyCount' = buggyCount + 1
  /\ buggyClicks' = buggyClicks + 1
  /\ IF BuggyCounterThrows(buggyCount')
     THEN /\ hasError' = TRUE
          /\ boundaryView' = FallbackShown
     ELSE /\ hasError' = hasError
          /\ boundaryView' = CounterShown(buggyCount')
  /\ UNCHANGED <<orderVars, todoVars, counterVars, signalVars, queryVars>>

BoundaryNext == BuggyClickIncrement

(***************************************************************************)
(* ServerStateManagement: the ['todos'] query and the toggle mutation.     *)
(* The fetch and the mutation are timers of 1000 ms and 500 ms; mutations  *)
(* settle in the order they were started.  A mutation is represented with  *)
(* the context its onMutate returned and the way its promise will settle.  *)
(***************************************************************************)
\* fetchTodos()
fetchTodos == Resolved(Some(FixedTodos))

\* toggleTodoStatus(id)
toggleTodoStatus(id) == Resolved(Some([id |-> id, success |-> TRUE]))

TodoIds == {FixedTodos[i].id : i \in 1..Len(FixedTodos)}

\* Variant: the update flips every todo of the list.
OptimisticUpdate_all(old, todoId) ==
  IF old = Null THEN old
  ELSE Some([i \in 1..Len(old[1]) |->
              [old[1][i] EXCEPT !.completed = ~old[1][i].completed]])

\* old?.map(todo => todo.id === todoId ? {...todo, completed: !todo.completed}
\*                                       : todo)
OptimisticUpdate(old, todoId) ==
  IF old = Null THEN old
  ELSE Some([i \in 1..Len(old[1]) |->
              IF old[1][i].id = todoId
              THEN [old[1][i] EXCEPT !.completed = ~old[1][i].completed]
              ELSE old[1][i]])

QueryEvent(op, todoId) == [op |-> op, todoId |-> todoId, before |-> queryData]

\* The fetch in flight resolves and its result becomes the cached data.
FetchResolves ==
  /\ fetching
  /\ queryData' = fetchTodos.value
  /\ fetching' = FALSE
  /\ queryEvent' = QueryEvent("fetch.then", 0)
  /\ UNCHANGED mutations
  /\ UNCHANGED <<orderVars, todoVars, counterVars, signalVars, boundaryVars>>

\* The Refresh button, disabled while a fetch is in flight: refetch().
ClickRefresh ==
  /\ ~fetching
  /\ fetching' = TRUE
  /\ queryEvent' = QueryEvent("refetch", 0)
  /\ UNCHANGED <<queryData, mutations>>
  /\ UNCHANGED <<orderVars, todoVars, counterVars, signalVars, boundaryVars>>

\* toggleMutation.mutate(todoId) up to the start of mutationFn: onMutate
\* cancels the fetch in flight, takes the snapshot and updates the cache.
ToggleMutating(todoId, promise) ==
  /\ queryData # Null
  /\ Len(mutations) < MaxMutations
  /\ fetching' = FALSE
  /\ queryData' = OptimisticUpdate(queryData, todoId)
  /\ mutations' = Append(mutations,
       [todoId |-> todoId, context |-> [previousTodos |-> queryData],
        promise |-> promise])
  /\ queryEvent' = QueryEvent("onMutate", todoId)
  /\ UNCHANGED <<orderVars, todoVars, counterVars, signalVars, boundaryVars>>

\* A checkbox of the rendered list changes.
ClickToggle(todoId) ==
  ToggleMutating(todoId, toggleTodoStatus(todoId))

\* Variant: nothing is invalidated when a mutation settles.
MutationSettles_noInvalidate ==
  /\ mutations # <<>>
  /\ LET m == Head(mutations)
     IN IF m.promise.settle = "reject"
        THEN /\ queryData' = m.context.previousTodos
             /\ queryEvent' = QueryEvent("onError", m.todoId)
        ELSE /\ queryData' = queryData
             /\ queryEvent' = QueryEvent("onSuccess", m.todoId)
  /\ mutations' = Tail(mutations)
  /\ UNCHANGED fetching
  /\ UNCHANGED <<orderVars, todoVars, counterVars, signalVars, boundaryVars>>

\* The oldest mutation settles: onError if it rejected, then onSettled, whose
\* invalidateQueries starts a new fetch of the mounted query (replacing one
\* in flight).
MutationSettles ==
  /\ mutations # <<>>
  /\ LET m == Head(mutations)
     IN IF m.promise.settle = "reject"
        THEN /\ queryData' = m.context.previousTodos
             /\ queryEvent' = QueryEvent("onError", m.todoId)
        ELSE /\ queryData' = queryData
             /\ queryEvent' = QueryEvent("onSuccess", m.todoId)
  /\ mutations' = Tail(mutations)
  /\ fetching' = TRUE
  /\ UNCHANGED <<orderVars, todoVars, counterVars, signalVars, boundaryVars>>

QueryNext ==
  \/ FetchResolves
  \/ ClickRefresh
  \/ \E todoId \in TodoIds : ClickToggle(todoId)
  \/ MutationSettles

\* The same component over a toggle request that may fail.
ClickToggleRejecting(todoId, m) ==
  ToggleMutating(todoId, Rejected(m))

QueryFailNext ==
  \/ QueryNext
  \/ \E todoId \in TodoIds, m \in Messages : ClickToggleRejecting(todoId, m)

SpecQueryFail == Init /\ [][QueryFailNext]_vars

(***************************************************************************)
(* The demo components side by side on one page.                           *)
(***************************************************************************)
ShowcaseNext ==
  \/ SignalNext
  \/ BoundaryNext
  \/ QueryNext

SpecShowcase == Init /\ [][ShowcaseNext]_vars

TypeOK ==
  /\ state \in OrderStates
  /\ cart \in Seq(Items)
  /\ Len(paymentDetails) <= 1
  /\ Len(error) <= 1


(***************************************************************************)
(* Steps of the asynchronous operations, recognised by what they do to the *)
(* queue of pending promises.                                              *)
(***************************************************************************)
Invokes(op) ==
  /\ event'.op = op
  /\ Len(pending') = Len(pending) + 1

Settles(op) ==
  /\ pending # <<>>
  /\ Head(pending).action = op
  /\ pending' = Tail(pending)

LastPending == pending[Len(pending)]

(***************************************************************************)
(* C1: submitPayment(d) invoked in paymentEntry puts the state to          *)
(* processingPayment at once, with the call still pending and the payment  *)
(* details untouched; when the payment then resolves, the state is         *)
(* confirmOrder, paymentDetails is d and error is null.                    *)
(***************************************************************************)
C1_SubmitPaymentSucceeds ==
  [][ /\ (state = "paymentEntry" /\ Invokes("submitPayment"))
         => /\ state' = "processingPayment"
            /\ pending'[Len(pending')].action = "submitPayment"
            /\ pending'[Len(pending')].arg = event'.arg
            /\ paymentDetails' = paymentDetails
      /\ (Settles("submitPayment") /\ Head(pending).promise.settle = "resolve")
         => /\ state' = "confirmOrder"
            /\ paymentDetails' = Head(pending).arg
            /\ error' = Null
    ]_vars

C1_Witness ==
  /\ event.op = "submitPayment.then"
  /\ event.from = "processingPayment"
  /\ state = "confirmOrder"
  /\ paymentDetails = Some("card")
  /\ error = Null

(***************************************************************************)
(* C2: placeOrder invoked in confirmOrder puts the state to                *)
(* processingOrder at once, with the call still pending; when the order    *)
(* submission resolves the state becomes orderComplete; neither step       *)
(* changes cart or paymentDetails.                                         *)
(***************************************************************************)
C2_PlaceOrderSucceeds ==
  [][ /\ (state = "confirmOrder" /\ Invokes("placeOrder"))
         => /\ state' = "processingOrder"
            /\ pending'[Len(pending')].action = "placeOrder"
            /\ cart' = cart
            /\ paymentDetails' = paymentDetails
      /\ (Settles("placeOrder") /\ Head(pending).promise.settle = "resolve")
         => /\ state' = "orderComplete"
            /\ cart' = cart
            /\ paymentDetails' = paymentDetails
    ]_vars

C2_Witness ==
  /\ event.op = "placeOrder.then"
  /\ event.from = "processingOrder"
  /\ state = "orderComplete"
  /\ cart # <<>>
  /\ paymentDetails # Null

(***************************************************************************)
(* C3 as stated: once the state is orderComplete it stays orderComplete    *)
(* whatever operation is invoked and whatever completion fires.            *)
(***************************************************************************)
C3_OrderCompleteTerminal ==
  [][state = "orderComplete" => state' = "orderComplete"]_vars

(***************************************************************************)
(* C3 amended: in orderComplete, addToCart and goBack leave the state      *)
(* alone; the store itself lets the state leave orderComplete only by a    *)
(* direct goToCheckout (to paymentEntry), submitPayment (to                *)
(* processingPayment) or placeOrder (to processingOrder), or when a        *)
(* submitPayment that is still pending resolves (to confirmOrder).         *)
(***************************************************************************)
C3_OrderCompleteLeftOnlyDirectly ==
  [][state = "orderComplete" =>
       state' = CASE event'.op = "goToCheckout" -> "paymentEntry"
                  [] event'.op = "submitPayment" -> "processingPayment"
                  [] event'.op = "placeOrder" -> "processingOrder"
                  [] event'.op = "submitPayment.then" -> "confirmOrder"
                  [] OTHER -> "orderComplete"
    ]_vars

C3_Witness ==
  /\ event.op \in {"addToCart", "goBack"}
  /\ event.from = "orderComplete"
  /\ state = "orderComplete"

(***************************************************************************)
(* C4: goBack leads from paymentEntry to browsing, from confirmOrder to    *)
(* paymentEntry, and leaves each of the other four states as it is.        *)
(***************************************************************************)
C4_GoBack ==
  event.op = "goBack" =>
    /\ event.from = "paymentEntry" => state = "browsing"
    /\ event.from = "confirmOrder" => state = "paymentEntry"
    /\ event.from \in {"browsing", "processingPayment",
                       "processingOrder", "orderComplete"}
         => state = event.from

C4_Witness ==
  /\ event.op = "goBack"
  /\ event.from = "confirmOrder"
  /\ state = "paymentEntry"

(***************************************************************************)
(* C5: goToCheckout puts the state to paymentEntry from every state it is  *)
(* called in, browsing or not.                                             *)
(***************************************************************************)
C5_GoToCheckoutUnconditional ==
  event.op = "goToCheckout" => state = "paymentEntry"

C5_Witness ==
  /\ event.op = "goToCheckout"
  /\ event.from = "orderComplete"
  /\ state = "paymentEntry"

(***************************************************************************)
(* C6: as long as nothing but addToCart has been called on the new store,  *)
(* the cart is the sequence of the arguments passed, in call order and     *)
(* with duplicates, and the state is browsing.                             *)
(***************************************************************************)
C6_CartIsArgumentsInOrder ==
  onlyAdds => (cart = added /\ state = "browsing")

C6_Witness ==
  /\ onlyAdds
  /\ cart = <<"item", "book", "item">>

(***************************************************************************)
(* C7: the store is created in browsing with an empty cart and null        *)
(* paymentDetails and error, and the state field always holds one of the   *)
(* six labels.                                                             *)
(***************************************************************************)
C7_InitialAndOneLabel ==
  /\ event.op = "create" =>
       /\ state = "browsing"
       /\ cart = <<>>
       /\ paymentDetails = Null
       /\ error = Null
  /\ state \in OrderStates
  /\ Cardinality({s \in OrderStates : s = state}) = 1

C7_Witness ==
  /\ event.op = "placeOrder.then"
  /\ state = "orderComplete"
  /\ Len(pending) = 1

(***************************************************************************)
(* C8: a rejected payment (order submission) is caught: the promise the    *)
(* action returned is fulfilled, error is the rejection's message, the     *)
(* state is rolled back to paymentEntry (confirmOrder), paymentDetails and *)
(* cart are untouched and nothing new is started.                          *)
(***************************************************************************)
C8_RollbackStep ==
  /\ (Settles("submitPayment") /\ Head(pending).promise.settle = "reject")
       => /\ state' = "paymentEntry"
          /\ error' = Head(pending).promise.value
          /\ event'.returns = "fulfilled"
          /\ paymentDetails' = paymentDetails
          /\ cart' = cart
  /\ (Settles("placeOrder") /\ Head(pending).promise.settle = "reject")
       => /\ state' = "confirmOrder"
          /\ error' = Head(pending).promise.value
          /\ event'.returns = "fulfilled"
          /\ paymentDetails' = paymentDetails
          /\ cart' = cart

\* After a failure was caught, the state changes only by a step that invokes
\* an operation.
C8_StaysUntilInvoked ==
  (event.op \in {"submitPayment.catch", "placeOrder.catch"} /\ state' # state)
    => event'.returns \in {"void", "pending"}

C8_FailureRolledBackUntilNextCall ==
  [][C8_RollbackStep /\ C8_StaysUntilInvoked]_vars

(***************************************************************************)
(* C9: submitPayment and placeOrder clear the error when they start, and   *)
(* whenever the state is processingPayment or processingOrder the error is *)
(* null, also when payments and order submissions may fail.                *)
(***************************************************************************)
C9_ProcessingHasNoError ==
  /\ event.op \in {"submitPayment", "placeOrder"} => error = Null
  /\ state \in {"processingPayment", "processingOrder"} => error = Null

C9_Witness ==
  /\ event.op = "submitPayment"
  /\ event.was # Null
  /\ state = "processingPayment"
  /\ error = Null

(***************************************************************************)
(* C10: with processPayment and submitOrder as written, error is null in   *)
(* every reachable state, no catch branch ever runs, and a completion      *)
(* always moves the state forward (to confirmOrder, to orderComplete),     *)
(* never back.                                                             *)
(***************************************************************************)
C10_NeverAnError ==
  /\ error = Null
  /\ event.op \notin {"submitPayment.catch", "placeOrder.catch"}
  /\ event.op = "submitPayment.then" => state = "confirmOrder"
  /\ event.op = "placeOrder.then" => state = "orderComplete"

C10_Witness ==
  /\ event.op = "submitPayment.then"
  /\ event.from = "processingPayment"
  /\ state = "confirmOrder"
  /\ error = Null
  /\ pending = <<>>

(***************************************************************************)
(* C11: the cart is append-only.  A step that is an addToCart call, in     *)
(* whatever state, appends exactly its argument; every other step          *)
(* (operations, completions, reaching orderComplete) leaves the cart as it *)
(* is; so the earlier cart is always a prefix of the later one.            *)
(***************************************************************************)
IsPrefix(s, t) ==
  /\ Len(s) <= Len(t)
  /\ \A i \in 1..Len(s) : s[i] = t[i]

C11_CartAppendOnly ==
  [][ /\ IsPrefix(cart, cart')
      /\ IF added' # added
         THEN cart' = Append(cart, added'[Len(added')])
         ELSE cart' = cart
    ]_vars

C11_Witness ==
  /\ event.op = "addToCart"
  /\ event.from = "orderComplete"
  /\ state = "orderComplete"
  /\ cart = <<"item", "book">>

(***************************************************************************)
(* C12: paymentDetails is null at creation and changes only when a         *)
(* submitPayment resolves, where it becomes that call's argument; no other *)
(* step (addToCart, goToCheckout, goBack, placeOrder, its completion, a    *)
(* failed payment) changes or clears it.                                   *)
(***************************************************************************)
C12_DetailsSetOnlyByPayment ==
  /\ paymentDetails = Null
  /\ [][ IF Settles("submitPayment") /\ Head(pending).promise.settle = "resolve"
         THEN paymentDetails' = Head(pending).arg
         ELSE paymentDetails' = paymentDetails
       ]_vars

C12_Witness ==
  /\ event.op = "submitPayment.catch"
  /\ state = "paymentEntry"
  /\ error # Null
  /\ paymentDetails = Some("card")

(***************************************************************************)
(* C13: at most one submitPayment or placeOrder is pending at any time.    *)
(***************************************************************************)
C13_SingleInFlight ==
  Len(pending) <= 1

(***************************************************************************)
(* C14: for every content b of the input buffer, the empty string          *)
(* included, addTodo appends exactly the one todo {text: b} at the end of  *)
(* todos and resets the buffer to the empty string.                        *)
(***************************************************************************)
C14_AddTodoAppendsBuffer ==
  [][addTodoCalls' # addTodoCalls =>
       /\ todos' = Append(todos, [text |-> input])
       /\ input' = ""
    ]_vars

C14_Witness ==
  /\ todoEvent.op = "addTodo"
  /\ todoEvent.buffer = ""
  /\ todos = <<[text |-> "buy milk"], [text |-> ""]>>
  /\ input = ""

(***************************************************************************)
(* C15: setInput(v) makes the buffer exactly v, whatever it held before,   *)
(* and leaves todos unchanged.                                             *)
(***************************************************************************)
C15_SetInputReplaces ==
  [][todoEvent'.op = "setInput" =>
       /\ input' = todoEvent'.arg[1]
       /\ todos' = todos
    ]_vars

C15_Witness ==
  /\ todoEvent.op = "setInput"
  /\ todoEvent.buffer = "buy milk"
  /\ input = "walk dog"
  /\ todos # <<>>

(***************************************************************************)
(* C16: todos only grows at its end: each step keeps the earlier sequence  *)
(* as a prefix, its length is the number of addTodo calls made, and both   *)
(* operations can always be applied (addTodo up to the bound of the        *)
(* model).                                                                 *)
(***************************************************************************)
C16_TodosNeverMutated ==
  /\ [](Len(todos) = addTodoCalls)
  /\ [](\A val \in Texts : ENABLED SetInput(val))
  /\ [](Len(todos) < MaxTodos => ENABLED AddTodo)
  /\ [][IsPrefix(todos, todos')]_vars

C16_Witness ==
  /\ addTodoCalls = 3
  /\ todos = <<[text |-> "buy milk"], [text |-> "buy milk"], [text |-> "walk dog"]>>
  /\ todoEvent.op = "setInput"

(***************************************************************************)
(* C17: a mounted useCounter starts at 0; while it stays mounted only a    *)
(* tick changes its count, by exactly +1, so the count never decreases and *)
(* equals the number of ticks fired since the activation.                  *)
(***************************************************************************)
C17_CountIsTicksSinceMount ==
  /\ [](\A i \in Instances : hooks[i].count = hooks[i].ticks)
  /\ [][\A i \in Instances :
          /\ (~hooks[i].mounted /\ hooks'[i].mounted) => hooks'[i].count = 0
          /\ (hooks[i].mounted /\ hooks'[i].mounted
                /\ hooks'[i].activation = hooks[i].activation)
               => \/ hooks'[i].count = hooks[i].count
                  \/ /\ hooks'[i].count = hooks[i].count + 1
                     /\ counterEvent'.op = "tick"
                     /\ counterEvent'.inst = i
       ]_vars

C17_Witness ==
  /\ hooks["A"].mounted
  /\ hooks["A"].count = 5
  /\ hooks["A"].ticks = 5
  /\ counterEvent.op = "tick"

(***************************************************************************)
(* C18: the interval timer lives exactly as long as the activation: a      *)
(* mounted instance owns exactly one live timer (the one its effect set),  *)
(* an unmounted one owns none, and while an instance is unmounted its      *)
(* count does not change, whatever timers fire, also after several         *)
(* mount/unmount cycles.                                                   *)
(***************************************************************************)
OwnedTimers(i) == {t \in timers : t.inst = i}

C18_TimerLivesWithActivation ==
  /\ [](\A i \in Instances :
          IF hooks[i].mounted
          THEN /\ Cardinality(OwnedTimers(i)) = 1
               /\ \A t \in OwnedTimers(i) :
                    /\ t.id = hooks[i].timer
                    /\ t.activation = hooks[i].activation
          ELSE OwnedTimers(i) = {})
  /\ [][\A i \in Instances :
          (~hooks[i].mounted /\ ~hooks'[i].mounted)
            => hooks'[i].count = hooks[i].count
       ]_vars

C18_Witness ==
  /\ ~hooks["A"].mounted
  /\ hooks["A"].activation = 2
  /\ hooks["A"].count = 1
  /\ OwnedTimers("A") = {}
  /\ counterEvent.op = "tick"
  /\ counterEvent.inst = "B"
  /\ hooks["B"].count = 2

(***************************************************************************)
(* C19: a re-render of a mounted useCounter with another intervalMs clears *)
(* the old timer and sets a new one with the new period, keeping the       *)
(* count; a re-render with the same intervalMs changes nothing; a tick     *)
(* always comes from the timer its instance currently holds.               *)
(***************************************************************************)
C19_PeriodChangeRestartsTimer ==
  [][ /\ \A i \in Instances :
           (counterEvent'.op = "rerender" /\ counterEvent'.inst = i) =>
             /\ hooks'[i].count = hooks[i].count
             /\ hooks'[i].ticks = hooks[i].ticks
             /\ IF hooks'[i].intervalMs = hooks[i].intervalMs
                THEN hooks' = hooks /\ timers' = timers
                ELSE /\ TimerOf(hooks[i].timer) \cap timers' = {}
                     /\ hooks'[i].timer # hooks[i].timer
                     /\ \E t \in timers' :
                          /\ t.id = hooks'[i].timer
                          /\ t.ms = hooks'[i].intervalMs
                          /\ t \notin timers
      /\ counterEvent'.op = "tick"
           => counterEvent'.timer = hooks[counterEvent'.inst].timer
    ]_vars

C19_Witness ==
  /\ counterEvent.op = "rerender"
  /\ counterEvent.inst = "A"
  /\ hooks["A"].intervalMs = 100
  /\ hooks["A"].count = 2
  /\ hooks["A"].timer = 2
  /\ Cardinality(OwnedTimers("A")) = 1

(***************************************************************************)
(* C20: useCounter shares nothing.  A tick of one instance changes only    *)
(* that instance's count, an unmount of one instance leaves the other      *)
(* instance and its timer alone, and no step of a hook instance changes a  *)
(* field of the order store or of the todo store, wherever it falls among  *)
(* their operations.                                                       *)
(***************************************************************************)
CounterStep == counterEvent' # counterEvent \/ hooks' # hooks \/ timers' # timers

C20_CounterSharesNothing ==
  [][ /\ CounterStep =>
           /\ <<state, cart, paymentDetails, error, pending>>'
                = <<state, cart, paymentDetails, error, pending>>
           /\ <<todos, input>>' = <<todos, input>>
      /\ \A i \in Instances :
           (CounterStep /\ counterEvent'.inst = i
              /\ counterEvent'.op \in {"tick", "unmount"}) =>
             \A j \in Instances \ {i} :
               /\ hooks'[j] = hooks[j]
               /\ OwnedTimers(j)' = OwnedTimers(j)
      /\ \A i \in Instances :
           (CounterStep /\ counterEvent'.inst = i /\ counterEvent'.op = "tick") =>
             hooks'[i] = [hooks[i] EXCEPT !.count = @ + 1, !.ticks = @ + 1]
    ]_vars

C20_Witness ==
  /\ counterEvent.op = "tick"
  /\ counterEvent.inst = "A"
  /\ hooks["A"].mounted /\ hooks["A"].count = 1
  /\ hooks["B"].mounted /\ hooks["B"].count = 0
  /\ state = "paymentEntry"
  /\ cart = <<"item">>
  /\ todos # <<>>

(***************************************************************************)
(* The transitions of the order flow: forward through the two processing   *)
(* states, back by goBack, and back by a failed payment or order.          *)
(***************************************************************************)
TableTransitions ==
  { <<"browsing", "paymentEntry">>,
    <<"paymentEntry", "browsing">>,
    <<"paymentEntry", "processingPayment">>,
    <<"processingPayment", "confirmOrder">>,
    <<"processingPayment", "paymentEntry">>,
    <<"confirmOrder", "paymentEntry">>,
    <<"confirmOrder", "processingOrder">>,
    <<"processingOrder", "orderComplete">>,
    <<"processingOrder", "confirmOrder">> }

(***************************************************************************)
(* C21: when the store is driven only through the controls OrderProcess    *)
(* renders, every change of state is one of the transitions of the table,  *)
(* and orderComplete is never left.                                        *)
(***************************************************************************)
C21_OnlyTableTransitions ==
  [][ /\ state' # state => <<state, state'>> \in TableTransitions
      /\ state = "orderComplete" => state' = "orderComplete" ]_vars

\* The flow went through every forward transition of the table: an order of
\* two items paid by card has completed.
C21_Witness ==
  /\ state = "orderComplete"
  /\ event.op = "placeOrder.then"
  /\ Len(cart) = 2
  /\ paymentDetails = Some("card")

(***************************************************************************)
(* C22: when the store is driven only through the rendered controls, at    *)
(* most one asynchronous action is pending at any time, and every          *)
(* completion runs while the store is in the processing state its call     *)
(* entered.                                                                *)
(***************************************************************************)
C22_OnePendingInItsState ==
  /\ Len(pending) <= 1
  /\ pending # <<>> =>
       state = (IF Head(pending).action = "submitPayment"
                THEN "processingPayment" ELSE "processingOrder")
  /\ event.op \in {"submitPayment.then", "submitPayment.catch"} =>
       event.from = "processingPayment"
  /\ event.op \in {"placeOrder.then", "placeOrder.catch"} =>
       event.from = "processingOrder"

\* A payment failure has just been delivered in processingPayment.
C22_Witness ==
  /\ event.op = "submitPayment.catch"
  /\ event.from = "processingPayment"
  /\ state = "paymentEntry"
  /\ pending = <<>>

(***************************************************************************)
(* C25: when the store is driven only through the rendered controls, the   *)
(* cart is non-empty in every state other than browsing, and the payment   *)
(* details are not null in confirmOrder, processingOrder and               *)
(* orderComplete.                                                          *)
(***************************************************************************)
C25_CartAndDetailsPresent ==
  /\ state # "browsing" => cart # <<>>
  /\ state \in {"confirmOrder", "processingOrder", "orderComplete"} =>
       paymentDetails # Null

\* An order completed with a one-item cart and an empty payment text.
C25_Witness ==
  /\ state = "orderComplete"
  /\ cart = <<"item">>
  /\ paymentDetails = Some("")

(***************************************************************************)
(* C23: in every reachable state, processingPayment means a submitPayment  *)
(* is pending and processingOrder means a placeOrder is pending; and, the  *)
(* timers firing, processingPayment is always followed by confirmOrder and *)
(* processingOrder by orderComplete, so neither processing state lasts.    *)
(***************************************************************************)
IsPending(op) == \E i \in 1..Len(pending) : pending[i].action = op

C23_ProcessingEnds ==
  /\ [](state = "processingPayment" => IsPending("submitPayment"))
  /\ [](state = "processingOrder" => IsPending("placeOrder"))
  /\ (state = "processingPayment") ~> (state = "confirmOrder")
  /\ (state = "processingOrder") ~> (state = "orderComplete")

\* Both processing states were entered and left by their completions.
C23_Witness ==
  /\ event.op = "placeOrder.then"
  /\ event.from = "processingOrder"
  /\ state = "orderComplete"
  /\ pending = <<>>
  /\ paymentDetails # Null

(***************************************************************************)
(* C24: a completion writes its result whatever the state has become in    *)
(* the meantime: a resolving submitPayment(d) sets confirmOrder and        *)
(* paymentDetails = d, a resolving placeOrder sets orderComplete.  So of   *)
(* overlapping payments the one resolving last leaves its argument in      *)
(* paymentDetails, and what an operation invoked between the call and its  *)
(* completion did to the state is overwritten.                             *)
(***************************************************************************)
C24_CompletionOverwrites ==
  /\ [](event.op = "submitPayment.then" =>
          state = "confirmOrder" /\ paymentDetails = event.arg)
  /\ [](event.op = "placeOrder.then" => state = "orderComplete")
  /\ [][ /\ Settles("submitPayment") =>
             (state' = "confirmOrder" /\ paymentDetails' = Head(pending).arg)
         /\ Settles("placeOrder") => state' = "orderComplete" ]_vars

\* The second of two overlapping payments resolved after the first had
\* already put the store in confirmOrder, and its argument is what stays.
C24_Witness ==
  /\ event.op = "submitPayment.then"
  /\ event.from = "confirmOrder"
  /\ event.arg = Some("card")
  /\ paymentDetails = Some("card")
  /\ pending = <<>>

(***************************************************************************)
(* C26: addToCart changes only the cart; goToCheckout and goBack change    *)
(* only the state.  So goBack from confirmOrder leaves paymentDetails in   *)
(* place, and the error of a failed action survives goBack, goToCheckout   *)
(* and addToCart: it is only cleared where a submitPayment or placeOrder   *)
(* starts.                                                                 *)
(***************************************************************************)
C26_SyncOperationsFrame ==
  [][ /\ event'.op = "addToCart" =>
           UNCHANGED <<state, paymentDetails, error, pending>>
      /\ event'.op \in {"goToCheckout", "goBack"} =>
           UNCHANGED <<cart, paymentDetails, error, pending>>
      /\ (error # Null /\ error' = Null) =>
           (Invokes("submitPayment") \/ Invokes("placeOrder")) ]_vars

\* The order failed in confirmOrder; goBack went to paymentEntry with the
\* error and the payment details both still there.
C26_Witness ==
  /\ event.op = "goBack"
  /\ event.from = "confirmOrder"
  /\ state = "paymentEntry"
  /\ error # Null
  /\ event.was = error
  /\ paymentDetails # Null

(***************************************************************************)
(* C27: the count of SignalCounter is one module-level signal that starts  *)
(* at 0: after n clicks on Increment, with mounts and unmounts of the      *)
(* component in between, the signal is n and a mounted component displays  *)
(* n (a remount does not reset it), and the displayed double is twice the  *)
(* displayed count.                                                        *)
(***************************************************************************)
C27_SignalCountIsClicks ==
  /\ countSignal = signalClicks
  /\ signalView # Null =>
       /\ signalView[1].count = signalClicks
       /\ signalView[1].double = 2 * signalView[1].count

\* The component was mounted again after two clicks and shows 2 and 4.
C27_Witness ==
  /\ signalEvent = "mount"
  /\ signalClicks = 2
  /\ signalView = Some([count |-> 2, double |-> 4])

(***************************************************************************)
(* C28: BuggyCounter's count starts at 0 and grows by one per click; the   *)
(* render with count 3 throws, the boundary's hasError becomes true and    *)
(* the fallback is rendered.  hasError never returns to false: from then   *)
(* on the fallback stays, the count cannot be incremented, and the counter *)
(* is never displayed with a value of 3 or more.                           *)
(***************************************************************************)
C28_CrashAtThree ==
  /\ [](buggyCount = buggyClicks)
  /\ [](hasError <=> buggyClicks >= 3)
  /\ [](boundaryView =
          IF hasError THEN FallbackShown ELSE CounterShown(buggyCount))
  /\ [](boundaryView.shows = "counter" => boundaryView.count[1] < 3)
  /\ [][hasError =>
          (hasError' /\ UNCHANGED <<buggyCount, buggyClicks, boundaryView>>)]_vars

\* The third click crashed the counter and the fallback is displayed.
C28_Witness ==
  /\ hasError
  /\ buggyClicks = 3
  /\ boundaryView = FallbackShown

(***************************************************************************)
(* C29: onMutate of the toggle mutation flips the completed flag of        *)
(* exactly the cached todo with the given id, leaves the other todos as    *)
(* they are, and returns the list as it was before as the snapshot; when   *)
(* the mutation fails, onError sets the cached list to exactly that        *)
(* snapshot.                                                               *)
(***************************************************************************)
C29_OptimisticToggleAndRollback ==
  [][ /\ Len(mutations') = Len(mutations) + 1 =>
           LET m == mutations'[Len(mutations')]
               old == queryData[1]
               new == queryData'[1]
           IN /\ m.context.previousTodos = queryData
              /\ Len(new) = Len(old)
              /\ \A i \in 1..Len(old) :
                    /\ new[i].id = old[i].id
                    /\ new[i].title = old[i].title
                    /\ new[i].completed =
                         (IF old[i].id = m.todoId
                          THEN ~old[i].completed ELSE old[i].completed)
      /\ ( /\ mutations # <<>>
           /\ mutations' = Tail(mutations)
           /\ Head(mutations).promise.settle = "reject" ) =>
           queryData' = Head(mutations).context.previousTodos ]_vars

\* A toggle failed and onError put the fetched list back in place of the
\* optimistically updated one.
C29_Witness ==
  /\ queryEvent.op = "onError"
  /\ queryEvent.before # queryData
  /\ queryEvent.before = OptimisticUpdate(queryData, queryEvent.todoId)
  /\ queryData = Some(FixedTodos)
  /\ mutations = <<>>

(***************************************************************************)
(* C30: when a toggle mutation settles, by success or by error, the todos  *)
(* query is fetched again, and the fetch resolves to the fixed list: the   *)
(* optimistic toggle is in the cache only until the refetch result, and    *)
(* with no mutation and no fetch in flight the cache holds the fixed list. *)
(***************************************************************************)
C30_RefetchRestoresFixedList ==
  /\ []((mutations = <<>> /\ ~fetching) => queryData = Some(FixedTodos))
  /\ [][(mutations # <<>> /\ mutations' = Tail(mutations)) => fetching']_vars
  /\ [][(fetching /\ ~fetching' /\ mutations' = mutations) =>
          queryData' = Some(FixedTodos)]_vars

\* The refetch after a settled toggle replaced a toggled list by the fixed
\* one.
C30_Witness ==
  /\ queryEvent.op = "fetch.then"
  /\ queryEvent.before # Null
  /\ queryEvent.before # Some(FixedTodos)
  /\ queryData = Some(FixedTodos)
  /\ mutations = <<>>
  /\ ~fetching

====
